---- MODULE Spec2Model ----
(***************************************************************************)
(* A model of k8s.io/component-helpers/scheduling/corev1/helpers.go:       *)
(* the pod resource aggregator (PodRequests, PodLimits and their helpers)  *)
(* and the taint matcher (TolerationsTolerateTaint,                        *)
(* FindMatchingUntoleratedTaint).                                          *)
(*                                                                         *)
(* Memory is explicit.  A ResourceList is a Go map, a reference type: it   *)
(* is named by a map id and its contents live in mem.maps.  A Quantity is  *)
(* a struct copied by value whose big-number part is a pointer: it is      *)
(* [i, d], with d = NoDec for the int64 form (the value is i) and d a heap *)
(* cell for the inf.Dec form (the value is mem.heap[d]).                   *)
(***************************************************************************)
EXTENDS Integers, Sequences, FiniteSets, TLC

VARIABLES
    pod,        \* the pod under evaluation: map ids of its resource lists
    mem,        \* maps: map id -> ResourceList;  heap: cell -> number;
                \* alloc: the accumulator maps in use
    call,       \* the last thing done: the kind of call and its options, with
                \* what the Reuse map held when it was passed ("none" before
                \* any call, "mutated" once the caller changed the result)
    ret,        \* the map the caller holds: the one the last call returned
    log,        \* ContainerFn invocations of the last call
    procs,      \* the two concurrent calls sharing one accumulator
    fatal,      \* the Go runtime stopped the program (concurrent map access)
    taints,     \* taint matcher inputs ...
    tolerations,
    filter,
    found       \* ... and its last result

vars == <<pod, mem, call, ret, log, procs, fatal,
          taints, tolerations, filter, found>>

aggVars == <<pod, mem, call, ret, log>>
raceVars == <<procs, fatal>>
taintVars == <<taints, tolerations, filter, found>>

----------------------------------------------------------------------------
(* Bounds of the model *)

MaxContainers == 3      \* containers of a pod, regular and init together
MaxQty == 2             \* declared quantities range over 0..MaxQty
MaxChained == 2         \* containers of a pod evaluated by a chain of calls
MaxRaced == 1           \* containers of a pod evaluated by two goroutines
MaxTaints == 3          \* taints of a node
MaxTolerations == 2     \* tolerations of a pod

Names == {"cpu", "memory"}

(* ContainerType, helpers.go:108-113 *)
ContainerTypeContainers == 1
ContainerTypeInitContainers == 2

----------------------------------------------------------------------------
(* Memory *)

NilMap == <<"nil", "nil", 0>>
AccMaps == {<<"acc", "a", 0>>, <<"acc", "b", 0>>}   \* maps the aggregator makes
OverheadMap == <<"overhead", "pod", 0>>
ContainerMap(kind, role, i) == <<kind, role, i>>

InputMaps ==
    {ContainerMap(k, role, i) : k \in {"requests", "limits"},
                                role \in {"containers", "init"},
                                i \in 1..MaxContainers}
    \cup {OverheadMap}

MapIds == InputMaps \cup AccMaps

NoDec == <<NilMap, "nil">>
Cell(list, name) == <<list, name>>
Cells == {Cell(l, n) : l \in MapIds, n \in Names}

EmptyList == [n \in {} |-> 0]

(* f as an explicit table (TLC otherwise keeps a function constructor as an *)
(* unevaluated expression and evaluates it again at every application)      *)
Table(f) == f @@ EmptyList

(* Quantity.Value: the number a Quantity stands for *)
Value(h, q) == IF q.d = NoDec THEN q.i ELSE h[q.d]

(* Quantity.IsZero *)
IsZero(h, q) == Value(h, q) = 0

(* Quantity.Cmp *)
Cmp(h, q, y) ==
    IF Value(h, q) > Value(h, y) THEN 1
    ELSE IF Value(h, q) = Value(h, y) THEN 0 ELSE -1

(* Quantity.DeepCopy: the int64 form is copied by value, the Dec form gets  *)
(* a newly allocated cell `fresh` holding a copy of the number.             *)
DeepCopy(h, q, fresh) ==
    IF q.d = NoDec
    THEN [q |-> q, heap |-> h]
    ELSE [q |-> [i |-> 0, d |-> fresh], heap |-> [h EXCEPT ![fresh] = h[q.d]]]

(* Quantity.Add on the local struct q (receiver by pointer), y by value:    *)
(* both int64 -> q.i changes; q in Dec form -> the cell q.d points to is    *)
(* changed in place; q int64 and y Dec -> q.ToDec() allocates `fresh`.      *)
QAdd(h, q, y, fresh) ==
    IF q.d = NoDec /\ y.d = NoDec
    THEN [q |-> [i |-> q.i + y.i, d |-> NoDec], heap |-> h]
    ELSE IF q.d # NoDec
    THEN [q |-> q, heap |-> [h EXCEPT ![q.d] = h[q.d] + Value(h, y)]]
    ELSE [q |-> [i |-> 0, d |-> fresh],
          heap |-> [h EXCEPT ![fresh] = q.i + Value(h, y)]]

(* list[name] = q, with the heap the expression that built q left behind *)
MapStore(m, list, name, q, h) ==
    [m EXCEPT !.maps[list] = (name :> q) @@ m.maps[list], !.heap = h]

(* value, ok := list[name]; the zero Quantity when the key is absent *)
Lookup(m, list, name) ==
    IF name \in DOMAIN m.maps[list]
    THEN [ok |-> TRUE, value |-> m.maps[list][name]]
    ELSE [ok |-> FALSE, value |-> [i |-> 0, d |-> NoDec]]

(* delete(list, name) *)
MapDelete(m, list, name) ==
    [m EXCEPT !.maps[list] =
                  Table([n \in DOMAIN m.maps[list] \ {name} |-> m.maps[list][n]])]

(* The garbage collector: a cell no map entry points to holds nothing. *)
Live(m) == UNION {{m.maps[l][n].d : n \in DOMAIN m.maps[l]} : l \in MapIds}

Collect(m) ==
    LET live == Live(m)
    IN  [m EXCEPT !.heap = Table([c \in Cells |-> IF c \in live THEN m.heap[c] ELSE 0])]

(* make(v1.ResourceList, 4): a map no one holds yet *)
NewMap(m) == CHOOSE a \in AccMaps : a \notin m.alloc

(* The caller drops a map: it becomes garbage *)
Release(m, list) ==
    IF list = NilMap THEN m
    ELSE Collect([m EXCEPT !.maps[list] = EmptyList, !.alloc = @ \ {list}])

(* A list seen as name -> number *)
View(m, list) ==
    Table([n \in DOMAIN m.maps[list] |-> Value(m.heap, m.maps[list][n])])

----------------------------------------------------------------------------
(* The resource aggregator *)

(* *PodResourcesOptions: a nil pointer, or the three fields.  ContainerFn  *)
(* is TRUE when a callback is installed; the callback records what it is   *)
(* given and what the accumulator holds at that moment.                    *)
NilOpts ==
    [nil |-> TRUE, Reuse |-> NilMap, ExcludeOverhead |-> FALSE, ContainerFn |-> FALSE]

(* &PodResourcesOptions{} *)
DefaultOpts ==
    [nil |-> FALSE, Reuse |-> NilMap, ExcludeOverhead |-> FALSE, ContainerFn |-> FALSE]

(* The options in force: nil stands for the defaults *)
Effective(opts) == IF opts.nil THEN DefaultOpts ELSE opts

(* for name := range list: the keys of the list, in the order this run of   *)
(* the program happens to visit them (ord is a permutation of Names).      *)
Range(m, list, ord) == SelectSeq(ord, LAMBDA n : n \in DOMAIN m.maps[list])

RECURSIVE clearKeys(_, _, _)
clearKeys(m, reuse, keys) ==
    IF keys = <<>> THEN m
    ELSE clearKeys(MapDelete(m, reuse, Head(keys)), reuse, Tail(keys))

(* Mutant: the reused map is returned as it is, not cleared *)
reuseWithoutClear(m, reuse, ord) ==
    IF reuse = NilMap
    THEN [mem |-> [m EXCEPT !.alloc = @ \cup {NewMap(m)}], list |-> NewMap(m)]
    ELSE [mem |-> m, list |-> reuse]

reuseOrClearResourceList(m, reuse, ord) ==
    IF reuse = NilMap
    THEN [mem |-> [m EXCEPT !.alloc = @ \cup {NewMap(m)}], list |-> NewMap(m)]
    ELSE [mem |-> clearKeys(m, reuse, Range(m, reuse, ord)), list |-> reuse]

(* Mutant: list[name] = quantity, without DeepCopy *)
addEntryShallow(m, list, name, quantity) ==
    IF name \notin DOMAIN m.maps[list]
    THEN MapStore(m, list, name, quantity, m.heap)
    ELSE LET r == QAdd(m.heap, m.maps[list][name], quantity, Cell(list, name))
         IN  MapStore(m, list, name, r.q, r.heap)

(* The body of addResourceList's loop, after value, ok := list[name] *)
addStore(m, list, name, quantity, got) ==
    IF ~got.ok
    THEN LET c == DeepCopy(m.heap, quantity, Cell(list, name))
         IN  MapStore(m, list, name, c.q, c.heap)
    ELSE LET r == QAdd(m.heap, got.value, quantity, Cell(list, name))
         IN  MapStore(m, list, name, r.q, r.heap)

(* The body of addResourceList's loop *)
addEntry(m, list, name, quantity) ==
    addStore(m, list, name, quantity, Lookup(m, list, name))

RECURSIVE addRange(_, _, _, _)
addRange(m, list, newList, keys) ==
    IF keys = <<>> THEN m
    ELSE addRange(addEntry(m, list, Head(keys), m.maps[newList][Head(keys)]),
                  list, newList, Tail(keys))

addResourceList(m, list, newList, ord) ==
    addRange(m, list, newList, Range(m, newList, ord))

(* Mutant: the init containers are summed like the regular ones *)
maxEntrySums(m, list, name, quantity) == addEntry(m, list, name, quantity)

(* Mutant: no comparison, the last init container wins *)
maxEntryLast(m, list, name, quantity) ==
    LET c == DeepCopy(m.heap, quantity, Cell(list, name))
    IN  MapStore(m, list, name, c.q, c.heap)

(* The body of maxResourceList's loop, after value, ok := list[name] *)
maxStore(m, list, name, quantity, got) ==
    IF ~got.ok \/ Cmp(m.heap, quantity, got.value) > 0
    THEN LET c == DeepCopy(m.heap, quantity, Cell(list, name))
         IN  MapStore(m, list, name, c.q, c.heap)
    ELSE m

(* The body of maxResourceList's loop *)
maxEntry(m, list, name, quantity) ==
    maxStore(m, list, name, quantity, Lookup(m, list, name))

RECURSIVE maxRange(_, _, _, _)
maxRange(m, list, newList, keys) ==
    IF keys = <<>> THEN m
    ELSE maxRange(maxEntry(m, list, Head(keys), m.maps[newList][Head(keys)]),
                  list, newList, Tail(keys))

maxResourceList(m, list, newList, ord) ==
    maxRange(m, list, newList, Range(m, newList, ord))

(* Mutant: overhead folded into the limits as it is into the requests *)
limitsOverheadEntryAlways(m, limits, name, quantity) ==
    addEntry(m, limits, name, quantity)

(* The body of PodLimits' overhead loop, after value, ok := limits[name] *)
limitsOverheadStore(m, limits, name, quantity, got) ==
    IF got.ok /\ ~IsZero(m.heap, got.value)
    THEN LET r == QAdd(m.heap, got.value, quantity, Cell(limits, name))
         IN  MapStore(m, limits, name, r.q, r.heap)
    ELSE m

(* The body of PodLimits' overhead loop *)
limitsOverheadEntry(m, limits, name, quantity) ==
    limitsOverheadStore(m, limits, name, quantity, Lookup(m, limits, name))

RECURSIVE limitsOverheadRange(_, _, _, _)
limitsOverheadRange(m, limits, overhead, keys) ==
    IF keys = <<>> THEN m
    ELSE limitsOverheadRange(
             limitsOverheadEntry(m, limits, Head(keys), m.maps[overhead][Head(keys)]),
             limits, overhead, Tail(keys))

(* opts.ContainerFn(res, containerType), when installed.  s is the call's   *)
(* running state [mem, log]; list is the accumulator.                       *)
callContainerFn(s, opts, list, res, containerType) ==
    IF opts.ContainerFn
    THEN [s EXCEPT !.log = Append(@, [res |-> res,
                                      containerType |-> containerType,
                                      acc |-> View(s.mem, list)])]
    ELSE s

(* Mutant: ContainerFn is called after the container has been added *)
RECURSIVE requestsContainersCallAfter(_, _, _, _, _)
requestsContainersCallAfter(s, opts, reqs, containers, ord) ==
    IF containers = <<>> THEN s
    ELSE LET container == Head(containers)
             s1 == [s EXCEPT !.mem = addResourceList(@, reqs, container.requests, ord)]
             s2 == callContainerFn(s1, opts, reqs, container.requests,
                                   ContainerTypeContainers)
         IN  requestsContainersCallAfter(s2, opts, reqs, Tail(containers), ord)

RECURSIVE requestsContainers(_, _, _, _, _)
requestsContainers(s, opts, reqs, containers, ord) ==
    IF containers = <<>> THEN s
    ELSE LET container == Head(containers)
             s1 == callContainerFn(s, opts, reqs, container.requests,
                                   ContainerTypeContainers)
             s2 == [s1 EXCEPT !.mem = addResourceList(@, reqs, container.requests, ord)]
         IN  requestsContainers(s2, opts, reqs, Tail(containers), ord)

RECURSIVE requestsInitContainers(_, _, _, _, _)
requestsInitContainers(s, opts, reqs, containers, ord) ==
    IF containers = <<>> THEN s
    ELSE LET container == Head(containers)
             s1 == callContainerFn(s, opts, reqs, container.requests,
                                   ContainerTypeInitContainers)
             s2 == [s1 EXCEPT !.mem = maxResourceList(@, reqs, container.requests, ord)]
         IN  requestsInitContainers(s2, opts, reqs, Tail(containers), ord)

(* Mutant: overhead folded into the requests as it is into the limits *)
PodRequestsOverheadOnNonZero(m, p, optsArg, ord) ==
    LET opts == Effective(optsArg)
        r == reuseOrClearResourceList(m, opts.Reuse, ord)
        reqs == r.list
        s1 == requestsContainers([mem |-> r.mem, log |-> <<>>], opts, reqs,
                                 p.containers, ord)
        s2 == requestsInitContainers(s1, opts, reqs, p.initContainers, ord)
        s3 == IF ~opts.ExcludeOverhead /\ p.overhead # NilMap
              THEN [s2 EXCEPT !.mem =
                       limitsOverheadRange(@, reqs, p.overhead,
                                           Range(@, p.overhead, ord))]
              ELSE s2
    IN  [mem |-> s3.mem, log |-> s3.log, ret |-> reqs]

PodRequests(m, p, optsArg, ord) ==
    LET opts == Effective(optsArg)
        r == reuseOrClearResourceList(m, opts.Reuse, ord)
        reqs == r.list
        s1 == requestsContainers([mem |-> r.mem, log |-> <<>>], opts, reqs,
                                 p.containers, ord)
        s2 == requestsInitContainers(s1, opts, reqs, p.initContainers, ord)
        s3 == IF ~opts.ExcludeOverhead /\ p.overhead # NilMap
              THEN [s2 EXCEPT !.mem = addResourceList(@, reqs, p.overhead, ord)]
              ELSE s2
    IN  [mem |-> s3.mem, log |-> s3.log, ret |-> reqs]

RECURSIVE limitsContainers(_, _, _, _, _)
limitsContainers(s, opts, limits, containers, ord) ==
    IF containers = <<>> THEN s
    ELSE LET container == Head(containers)
             s1 == callContainerFn(s, opts, limits, container.limits,
                                   ContainerTypeContainers)
             s2 == [s1 EXCEPT !.mem = addResourceList(@, limits, container.limits, ord)]
         IN  limitsContainers(s2, opts, limits, Tail(containers), ord)

RECURSIVE limitsInitContainers(_, _, _, _, _)
limitsInitContainers(s, opts, limits, containers, ord) ==
    IF containers = <<>> THEN s
    ELSE LET container == Head(containers)
             s1 == callContainerFn(s, opts, limits, container.limits,
                                   ContainerTypeInitContainers)
             s2 == [s1 EXCEPT !.mem = maxResourceList(@, limits, container.limits, ord)]
         IN  limitsInitContainers(s2, opts, limits, Tail(containers), ord)

PodLimits(m, p, optsArg, ord) ==
    LET opts == Effective(optsArg)
        r == reuseOrClearResourceList(m, opts.Reuse, ord)
        limits == r.list
        s1 == limitsContainers([mem |-> r.mem, log |-> <<>>], opts, limits,
                               p.containers, ord)
        s2 == limitsInitContainers(s1, opts, limits, p.initContainers, ord)
        s3 == IF ~opts.ExcludeOverhead /\ p.overhead # NilMap
              THEN [s2 EXCEPT !.mem =
                       limitsOverheadRange(@, limits, p.overhead,
                                           Range(@, p.overhead, ord))]
              ELSE s2
    IN  [mem |-> s3.mem, log |-> s3.log, ret |-> limits]

----------------------------------------------------------------------------
(* Pods *)

Kinds == {"requests", "limits"}

(* What a resource list is drawn from: name -> [v, dec], the number and     *)
(* whether the Quantity is in the Dec form.  The lists are: the empty list, *)
(* cpu alone in the int64 form with every number up to MaxQty, memory alone *)
(* in the Dec form, and cpu and memory together in the Dec form.            *)
ListTemplates ==
    {EmptyList}
    \cup {"cpu" :> [v |-> k, dec |-> FALSE] : k \in 0..MaxQty}
    \cup {"memory" :> [v |-> MaxQty, dec |-> TRUE]}
    \cup {("cpu" :> [v |-> 1, dec |-> TRUE]) @@ ("memory" :> [v |-> 1, dec |-> TRUE])}

(* A container's limits are twice its requests *)
Doubled(t) == Table([n \in DOMAIN t |-> [t[n] EXCEPT !.v = 2 * @]])

EmptyMem ==
    [maps |-> Table([l \in MapIds |-> EmptyList]),
     heap |-> Table([c \in Cells |-> 0]),
     alloc |-> {}]

Install(m, id, t) ==
    [m EXCEPT
       !.maps[id] = Table([n \in DOMAIN t |->
                             IF t[n].dec THEN [i |-> 0, d |-> Cell(id, n)]
                             ELSE [i |-> t[n].v, d |-> NoDec]]),
       !.heap = Table([c \in Cells |->
                         IF \E n \in DOMAIN t : t[n].dec /\ c = Cell(id, n)
                         THEN t[CHOOSE n \in DOMAIN t : c = Cell(id, n)].v
                         ELSE m.heap[c]])]

RECURSIVE InstallContainers(_, _, _, _)
InstallContainers(m, role, lists, i) ==
    IF i > Len(lists) THEN m
    ELSE InstallContainers(
             Install(Install(m, ContainerMap("requests", role, i), lists[i]),
                     ContainerMap("limits", role, i), Doubled(lists[i])),
             role, lists, i + 1)

ContainerAt(role, i) ==
    [requests |-> ContainerMap("requests", role, i),
     limits |-> ContainerMap("limits", role, i)]

(* A pod whose containers request `lists` (regular) and `initLists` (init)  *)
(* and whose overhead is `overhead` (a one-element sequence) or nil (the    *)
(* empty sequence).                                                         *)
MakePod(lists, initLists, overhead) ==
    [containers |-> Table([i \in 1..Len(lists) |-> ContainerAt("containers", i)]),
     initContainers |-> Table([i \in 1..Len(initLists) |-> ContainerAt("init", i)]),
     overhead |-> IF overhead = <<>> THEN NilMap ELSE OverheadMap]

MakeMem(lists, initLists, overhead) ==
    LET m1 == InstallContainers(EmptyMem, "containers", lists, 1)
        m2 == InstallContainers(m1, "init", initLists, 1)
    IN  IF overhead = <<>> THEN m2 ELSE Install(m2, OverheadMap, overhead[1])

SeqsUpTo(S, n) == UNION {[1..k -> S] : k \in 0..n}

NoCall == [kind |-> "none", opts |-> NilOpts, prior |-> EmptyList, name |-> ""]

InitAggregator(maxContainers) ==
    \E lists \in SeqsUpTo(ListTemplates, maxContainers) :
    \E initLists \in SeqsUpTo(ListTemplates, maxContainers - Len(lists)) :
    \E overhead \in SeqsUpTo(ListTemplates, 1) :
        /\ pod = MakePod(lists, initLists, overhead)
        /\ mem = MakeMem(lists, initLists, overhead)
        /\ call = NoCall
        /\ ret = NilMap
        /\ log = <<>>

IdleRace == /\ procs = <<>>
            /\ fatal = FALSE

(* v1.Taint{} *)
ZeroTaint == [key |-> "", value |-> "", effect |-> ""]

NotAsked == [op |-> "none", arg |-> ZeroTaint, taint |-> ZeroTaint, ok |-> FALSE]

IdleTaints == /\ taints = <<>>
              /\ tolerations = <<>>
              /\ filter = "nil"
              /\ found = NotAsked

IdleAggregator == /\ pod = MakePod(<<>>, <<>>, <<>>)
                  /\ mem = EmptyMem
                  /\ call = NoCall
                  /\ ret = NilMap
                  /\ log = <<>>

----------------------------------------------------------------------------
(* Calls of the aggregator *)

(* The options of a caller that passes no Reuse map, and of one that passes *)
(* the map it holds                                                         *)
FreshOptions ==
    {NilOpts} \cup [nil : {FALSE}, Reuse : {NilMap},
                    ExcludeOverhead : BOOLEAN, ContainerFn : BOOLEAN]

ReuseOptions(held) ==
    [nil : {FALSE}, Reuse : {held}, ExcludeOverhead : BOOLEAN, ContainerFn : BOOLEAN]

RangeOrders ==
    {s \in [1..Cardinality(Names) -> Names] : \A i, j \in DOMAIN s : s[i] = s[j] => i = j}

(* The call returned r: the caller holds r.ret, and lets go of the map it   *)
(* held before if that is another one.                                      *)
Returned(kind, opts, r) ==
    /\ mem' = Collect(IF r.ret = ret THEN r.mem ELSE Release(r.mem, ret))
    /\ call' = [kind |-> kind, opts |-> opts, name |-> "",
                prior |-> IF Effective(opts).Reuse = NilMap THEN EmptyList
                          ELSE View(mem, Effective(opts).Reuse)]
    /\ ret' = r.ret
    /\ log' = r.log
    /\ UNCHANGED <<pod, raceVars, taintVars>>

PodRequestsCall(optionSet) ==
    \E opts \in optionSet : \E ord \in RangeOrders :
        Returned("requests", opts, PodRequests(mem, pod, opts, ord))

PodLimitsCall(optionSet) ==
    \E opts \in optionSet : \E ord \in RangeOrders :
        Returned("limits", opts, PodLimits(mem, pod, opts, ord))

(* One call on one pod, without a Reuse map *)
PureRequests == call.kind = "none" /\ PodRequestsCall(FreshOptions)
PureLimits == call.kind = "none" /\ PodLimitsCall(FreshOptions)

InitPure == InitAggregator(MaxContainers) /\ IdleRace /\ IdleTaints
NextPure == PureRequests \/ PureLimits
SpecPure == InitPure /\ [][NextPure]_vars

(* A chain of calls on one pod: the first has no map to reuse, each later   *)
(* one reuses the map the caller holds; between two calls the caller may    *)
(* change the map it got.  The caller of a chain installs no ContainerFn.   *)
ChainOptions ==
    {o \in IF ret = NilMap THEN FreshOptions ELSE ReuseOptions(ret) : ~o.ContainerFn}

ChainedRequests == PodRequestsCall(ChainOptions)
ChainedLimits == PodLimitsCall(ChainOptions)

One == [i |-> 1, d |-> NoDec]

(* The caller raises entry `name` of the map it was returned by one:        *)
(*   q := m[name]; q.Add(one); m[name] = q                                  *)
(* (q.Add changes a Dec-form quantity through its pointer)                  *)
MutateReturned ==
    /\ call.kind \in Kinds
    /\ \E name \in Names :
        LET q == IF name \in DOMAIN mem.maps[ret] THEN mem.maps[ret][name]
                 ELSE [i |-> 0, d |-> NoDec]
            r == QAdd(mem.heap, q, One, Cell(ret, name))
        IN  /\ mem' = MapStore(mem, ret, name, r.q, r.heap)
            /\ call' = [NoCall EXCEPT !.kind = "mutated", !.name = name]
    /\ log' = <<>>
    /\ UNCHANGED <<pod, ret, raceVars, taintVars>>

Init == InitAggregator(MaxChained) /\ IdleRace /\ IdleTaints
Next == ChainedRequests \/ ChainedLimits \/ MutateReturned
Spec == Init /\ [][Next]_vars

----------------------------------------------------------------------------
(* The taint matcher *)

Effects == {"NoSchedule", "NoExecute"}
Taints == [key : {"a", "b"}, value : {"x"}, effect : Effects]

(* The tolerations a pod is given here: of everything; of key a with value  *)
(* x; of key a with value x for NoExecute only; of key b with another value *)
(* (it matches no taint); of every NoSchedule taint.                        *)
Tolerations ==
    {[key |-> "", operator |-> "Exists", value |-> "", effect |-> ""],
     [key |-> "a", operator |-> "", value |-> "x", effect |-> ""],
     [key |-> "a", operator |-> "Equal", value |-> "x", effect |-> "NoExecute"],
     [key |-> "b", operator |-> "Equal", value |-> "y", effect |-> ""],
     [key |-> "", operator |-> "Exists", value |-> "", effect |-> "NoSchedule"]}

(* A taintsFilterFunc: nil, or a predicate on the taint's effect *)
Filters == {"nil"} \cup Effects

(* inclusionFilter(&taint) *)
ApplyFilter(inclusionFilter, taint) == taint.effect = inclusionFilter

(* Toleration.ToleratesTaint *)
ToleratesTaint(toleration, taint) ==
    IF toleration.effect # "" /\ toleration.effect # taint.effect THEN FALSE
    ELSE IF toleration.key # "" /\ toleration.key # taint.key THEN FALSE
    ELSE IF toleration.operator \in {"", "Equal"} THEN toleration.value = taint.value
    ELSE toleration.operator = "Exists"

(* Mutant: only the first toleration is looked at *)
TolerationsTolerateTaintFirstOnly(tols, taint) ==
    tols # <<>> /\ ToleratesTaint(tols[1], taint)

RECURSIVE TolerationsTolerateTaint(_, _)
TolerationsTolerateTaint(tols, taint) ==
    IF tols = <<>> THEN FALSE
    ELSE IF ToleratesTaint(Head(tols), taint) THEN TRUE
    ELSE TolerationsTolerateTaint(Tail(tols), taint)

(* Mutant: the filter is applied the wrong way round *)
getFilteredTaintsInverted(ts, inclusionFilter) ==
    IF inclusionFilter = "nil" THEN ts
    ELSE SelectSeq(ts, LAMBDA taint : ~ApplyFilter(inclusionFilter, taint))

getFilteredTaints(ts, inclusionFilter) ==
    IF inclusionFilter = "nil" THEN ts
    ELSE SelectSeq(ts, LAMBDA taint : ApplyFilter(inclusionFilter, taint))

RECURSIVE firstUntolerated(_, _)
firstUntolerated(filteredTaints, tols) ==
    IF filteredTaints = <<>> THEN [taint |-> ZeroTaint, ok |-> FALSE]
    ELSE IF ~TolerationsTolerateTaint(tols, Head(filteredTaints))
    THEN [taint |-> Head(filteredTaints), ok |-> TRUE]
    ELSE firstUntolerated(Tail(filteredTaints), tols)

FindMatchingUntoleratedTaint(ts, tols, inclusionFilter) ==
    firstUntolerated(getFilteredTaints(ts, inclusionFilter), tols)

InitTaints ==
    /\ IdleAggregator
    /\ IdleRace
    /\ taints \in SeqsUpTo(Taints, MaxTaints)
    /\ tolerations \in SeqsUpTo(Tolerations, MaxTolerations)
    /\ filter \in Filters
    /\ found = NotAsked

Find ==
    /\ LET r == FindMatchingUntoleratedTaint(taints, tolerations, filter)
       IN  found' = [op |-> "find", arg |-> ZeroTaint, taint |-> r.taint, ok |-> r.ok]
    /\ UNCHANGED <<taints, tolerations, filter, aggVars, raceVars>>

Tolerate ==
    /\ \E taint \in Taints :
          found' = [op |-> "tolerate", arg |-> taint, taint |-> ZeroTaint,
                    ok |-> TolerationsTolerateTaint(tolerations, taint)]
    /\ UNCHANGED <<taints, tolerations, filter, aggVars, raceVars>>

NextTaints == Find \/ Tolerate
SpecTaints == InitTaints /\ [][NextTaints]_vars

----------------------------------------------------------------------------
(* Two goroutines evaluating the pod into one accumulator *)

(* Each goroutine runs one call, PodRequests or PodLimits, with             *)
(* opts.Reuse = ret, a map operation at a time.  The quantities here are    *)
(* all in the int64 form, so that what a goroutine has read is a value of   *)
(* its own and no pointer into the heap.                                    *)
Goroutines == {1, 2}
Other(g) == 3 - g

IntTemplates ==
    {EmptyList,
     "cpu" :> [v |-> 1, dec |-> FALSE],
     ("cpu" :> [v |-> MaxQty, dec |-> FALSE]) @@ ("memory" :> [v |-> 1, dec |-> FALSE])}

NotRead == [ok |-> FALSE, value |-> [i |-> 0, d |-> NoDec]]

NotStarted ==
    [pc |-> "idle", kind |-> "requests", excl |-> FALSE, src |-> 0, todo |-> {},
     name |-> "", got |-> NotRead, overlapped |-> FALSE, result |-> EmptyList]

Active(p) == p.pc \in {"clear", "range", "store"}

(* The lists a call folds into the accumulator, in the order of its code,   *)
(* and how it folds each.                                                   *)
Sources(kind, p, excl) ==
    LET field(c) == IF kind = "requests" THEN c.requests ELSE c.limits
        regular == [i \in DOMAIN p.containers |->
                       [list |-> field(p.containers[i]), mode |-> "add"]]
        init == [i \in DOMAIN p.initContainers |->
                    [list |-> field(p.initContainers[i]), mode |-> "max"]]
        overhead == IF ~excl /\ p.overhead # NilMap
                    THEN <<[list |-> p.overhead,
                            mode |-> IF kind = "requests" THEN "add" ELSE "overhead"]>>
                    ELSE <<>>
    IN  regular \o init \o overhead

(* The goroutine gets to the range loop over source src: an empty list's    *)
(* loop has no iteration, and past the last source the call returns the     *)
(* accumulator, which the caller reads.                                     *)
RECURSIVE Enter(_, _, _)
Enter(m, p, src) ==
    LET sources == Sources(p.kind, pod, p.excl)
    IN  IF src > Len(sources)
        THEN [p EXCEPT !.pc = "done", !.src = src, !.todo = {},
                       !.result = View(m, ret)]
        ELSE IF DOMAIN m.maps[sources[src].list] = {}
        THEN Enter(m, p, src + 1)
        ELSE [p EXCEPT !.pc = "range", !.src = src,
                       !.todo = DOMAIN m.maps[sources[src].list]]

(* The accumulator the caller made for both: make(v1.ResourceList) *)
Shared == NewMap(EmptyMem)

InitRace ==
    /\ \E lists \in SeqsUpTo(IntTemplates, MaxRaced) :
       \E initLists \in SeqsUpTo(IntTemplates, MaxRaced - Len(lists)) :
       \E overhead \in SeqsUpTo(IntTemplates, 1) :
           /\ pod = MakePod(lists, initLists, overhead)
           /\ mem = [MakeMem(lists, initLists, overhead) EXCEPT !.alloc = {Shared}]
    /\ call = NoCall
    /\ ret = Shared
    /\ log = <<>>
    /\ procs = [g \in Goroutines |-> NotStarted]
    /\ fatal = FALSE
    /\ IdleTaints

(* go PodRequests(pod, opts) or go PodLimits(pod, opts), up to the range    *)
(* statement of reuseOrClearResourceList                                    *)
Go(g) ==
    /\ ~fatal
    /\ procs[g].pc = "idle"
    /\ \E kind \in Kinds, excl \in BOOLEAN :
          LET concurrent == Active(procs[Other(g)])
              p == [procs[g] EXCEPT !.kind = kind, !.excl = excl,
                                    !.overlapped = concurrent]
          IN  procs' = [procs EXCEPT
                          ![g] = IF DOMAIN mem.maps[ret] = {}
                                 THEN Enter(mem, p, 1)
                                 ELSE [p EXCEPT !.pc = "clear",
                                                !.todo = DOMAIN mem.maps[ret]],
                          ![Other(g)].overlapped = @ \/ concurrent]
    /\ UNCHANGED <<pod, mem, call, ret, log, fatal, taintVars>>

(* Mutant: the loop of reuseOrClearResourceList deletes nothing *)
ClearSkips(g) ==
    /\ ~fatal
    /\ procs[g].pc = "clear"
    /\ procs' = [procs EXCEPT ![g] = Enter(mem, @, 1)]
    /\ UNCHANGED <<pod, mem, call, ret, log, fatal, taintVars>>

(* One iteration of the loop of reuseOrClearResourceList: delete(reuse, k)  *)
(* for a key the map had when the loop began, or one put in since.          *)
Clear(g) ==
    /\ ~fatal
    /\ procs[g].pc = "clear"
    /\ \E name \in procs[g].todo \cup DOMAIN mem.maps[ret] :
          LET m == MapDelete(mem, ret, name)
              rest == procs[g].todo \ {name}
          IN  /\ mem' = m
              /\ procs' = [procs EXCEPT
                              ![g] = IF rest = {} THEN Enter(m, @, 1)
                                     ELSE [@ EXCEPT !.todo = rest]]
    /\ UNCHANGED <<pod, call, ret, log, fatal, taintVars>>

(* value, ok := list[name] of the next iteration of the range loop *)
Read(g) ==
    /\ ~fatal
    /\ procs[g].pc = "range"
    /\ \E name \in procs[g].todo :
          procs' = [procs EXCEPT ![g] = [@ EXCEPT !.pc = "store",
                                                  !.name = name,
                                                  !.got = Lookup(mem, ret, name),
                                                  !.todo = @ \ {name}]]
    /\ UNCHANGED <<pod, mem, call, ret, log, fatal, taintVars>>

(* The rest of the iteration, with what was read *)
Store(g) ==
    /\ ~fatal
    /\ procs[g].pc = "store"
    /\ LET p == procs[g]
           source == Sources(p.kind, pod, p.excl)[p.src]
           quantity == mem.maps[source.list][p.name]
           m == CASE source.mode = "add" ->
                       addStore(mem, ret, p.name, quantity, p.got)
                  [] source.mode = "max" ->
                       maxStore(mem, ret, p.name, quantity, p.got)
                  [] source.mode = "overhead" ->
                       limitsOverheadStore(mem, ret, p.name, quantity, p.got)
           q == [p EXCEPT !.name = "", !.got = NotRead]
       IN  /\ mem' = m
           /\ procs' = [procs EXCEPT
                           ![g] = IF p.todo = {} THEN Enter(m, q, p.src + 1)
                                  ELSE [q EXCEPT !.pc = "range"]]
    /\ UNCHANGED <<pod, call, ret, log, fatal, taintVars>>

(* fatal error: concurrent map writes (or read and write), which the        *)
(* runtime may raise while both goroutines are at the map                   *)
Crash ==
    /\ ~fatal
    /\ \A g \in Goroutines : Active(procs[g])
    /\ fatal' = TRUE
    /\ UNCHANGED <<aggVars, procs, taintVars>>

NextRace == \/ \E g \in Goroutines : Go(g) \/ Clear(g) \/ Read(g) \/ Store(g)
            \/ Crash
SpecRace == InitRace /\ [][NextRace]_vars

----------------------------------------------------------------------------
(* What the claims are stated with *)

OverheadIncluded == ~Effective(call.opts).ExcludeOverhead /\ pod.overhead # NilMap

(* The views of the lists a sequence of containers declares for `kind` *)
Declared(kind, containers) ==
    Table([i \in DOMAIN containers |-> View(mem, containers[i][kind])])

OverheadView == IF pod.overhead = NilMap THEN EmptyList ELSE View(mem, pod.overhead)

Result == View(mem, ret)

Keys(views) == UNION {DOMAIN views[i] : i \in DOMAIN views}
Naming(views, n) == {i \in DOMAIN views : n \in DOMAIN views[i]}

RECURSIVE SumOver(_, _, _)
SumOver(views, n, S) ==
    IF S = {} THEN 0
    ELSE LET i == CHOOSE j \in S : TRUE
         IN  views[i][n] + SumOver(views, n, S \ {i})

MaxOver(views, n, S) ==
    CHOOSE v \in {views[i][n] : i \in S} : \A i \in S : views[i][n] <= v

Greater(a, b) == IF a > b THEN a ELSE b

(* Sum over the regular containers, maximum over the init containers *)
Aggregate(regular, init) ==
    Table([n \in Keys(regular) \cup Keys(init) |->
        LET R == Naming(regular, n)
            I == Naming(init, n)
        IN  IF I = {} THEN SumOver(regular, n, R)
            ELSE IF R = {} THEN MaxOver(init, n, I)
            ELSE Greater(SumOver(regular, n, R), MaxOver(init, n, I))])

AggregateOf(kind) ==
    Aggregate(Declared(kind, pod.containers), Declared(kind, pod.initContainers))

(* a with every entry of b added: insert if absent, add if present *)
Plus(a, b) ==
    Table([n \in DOMAIN a \cup DOMAIN b |->
        IF n \notin DOMAIN b THEN a[n]
        ELSE IF n \notin DOMAIN a THEN b[n] ELSE a[n] + b[n]])

(* The view of what a call of `kind` with options opts returns on pod p,    *)
(* from the memory as it is now, whatever the order of its range loops      *)
Outcomes(kind, p, opts) ==
    {LET r == IF kind = "requests" THEN PodRequests(mem, p, opts, ord)
              ELSE PodLimits(mem, p, opts, ord)
     IN  View(r.mem, r.ret) : ord \in RangeOrders}

Fresh(opts) == [Effective(opts) EXCEPT !.Reuse = NilMap, !.ContainerFn = FALSE]

Reorderings(seq) ==
    {Table([i \in DOMAIN seq |-> seq[f[i]]]) :
        f \in {g \in [DOMAIN seq -> DOMAIN seq] : \A i, j \in DOMAIN seq : g[i] = g[j] => i = j}}

----------------------------------------------------------------------------
(* C1: with overhead excluded or not declared, PodRequests returns, for    *)
(* exactly the names some container requests, the sum over the regular     *)
(* containers, the maximum over the init containers, or the greater of the *)
(* two when both kinds of container name the resource.                     *)
C1_RequestsAggregate ==
    (call.kind = "requests" /\ ~OverheadIncluded) =>
        /\ DOMAIN Result = Keys(Declared("requests", pod.containers))
                           \cup Keys(Declared("requests", pod.initContainers))
        /\ Result = AggregateOf("requests")

(* a pod with two regular containers and an init container that all name a  *)
(* resource, the init container asking for more than the regular sum        *)
C1_Witness ==
    /\ call.kind = "requests" /\ ~OverheadIncluded
    /\ Len(pod.containers) = 2 /\ Len(pod.initContainers) = 1
    /\ \E n \in Names :
        LET R == Declared("requests", pod.containers)
            I == Declared("requests", pod.initContainers)
        IN  /\ n \in DOMAIN R[1] /\ n \in DOMAIN R[2] /\ n \in DOMAIN I[1]
            /\ R[1][n] + R[2][n] > 0
            /\ I[1][n] > R[1][n] + R[2][n]
            /\ Result[n] = I[1][n]
            /\ DOMAIN Result # {n}

(* C2: with overhead included, PodLimits adds an overhead entry only to a   *)
(* name whose aggregated limit is present and not zero: a zero limit stays  *)
(* zero, an absent name stays absent, and the key set is the one PodLimits  *)
(* returns with overhead excluded.                                          *)
C2_LimitsOverhead ==
    (call.kind = "limits" /\ OverheadIncluded) =>
        LET base == AggregateOf("limits")
        IN  /\ DOMAIN Result = DOMAIN base
            /\ \A n \in DOMAIN base :
                  Result[n] = IF base[n] # 0 /\ n \in DOMAIN OverheadView
                              THEN base[n] + OverheadView[n]
                              ELSE base[n]
            /\ \A excluded \in Outcomes("limits", pod,
                                        [Fresh(call.opts) EXCEPT !.ExcludeOverhead = TRUE]) :
                  DOMAIN excluded = DOMAIN Result

(* the overhead names a zero limit (kept at zero), a limit that is not zero *)
(* (raised) and, in another pod, a resource without limit (still absent)    *)
C2_Witness ==
    /\ call.kind = "limits" /\ OverheadIncluded
    /\ \E n \in DOMAIN OverheadView :
          n \in DOMAIN Result /\ Result[n] = 0 /\ OverheadView[n] > 0
    /\ \E n \in DOMAIN OverheadView :
          n \in DOMAIN Result /\ Result[n] > OverheadView[n]

C2_WitnessAbsent ==
    /\ call.kind = "limits" /\ OverheadIncluded
    /\ \E n \in DOMAIN OverheadView : n \notin DOMAIN Result
    /\ Result # EmptyList

(* C3: with overhead declared, PodRequests with overhead included is        *)
(* PodRequests with overhead excluded plus every overhead entry, inserted   *)
(* when absent and added when present; with overhead excluded the overhead  *)
(* does not show in the result.                                             *)
C3_RequestsOverhead ==
    (call.kind = "requests" /\ pod.overhead # NilMap) =>
        /\ \A excluded \in Outcomes("requests", pod,
                                    [Fresh(call.opts) EXCEPT !.ExcludeOverhead = TRUE]) :
              Result = IF OverheadIncluded THEN Plus(excluded, OverheadView)
                       ELSE excluded
        /\ (OverheadIncluded /\ pod.containers = <<>> /\ pod.initContainers = <<>>)
              => Result = OverheadView
        /\ ~OverheadIncluded => Result = AggregateOf("requests")

(* the overhead adds to a request of zero and inserts a name no container   *)
(* requests                                                                 *)
C3_Witness ==
    /\ call.kind = "requests" /\ OverheadIncluded
    /\ LET base == AggregateOf("requests")
       IN  /\ \E n \in DOMAIN OverheadView :
                 n \in DOMAIN base /\ base[n] = 0 /\ Result[n] = OverheadView[n]
                 /\ OverheadView[n] > 0
           /\ \E n \in DOMAIN OverheadView : n \notin DOMAIN base /\ n \in DOMAIN Result

(* C8: with a ContainerFn installed, a call invokes it once per container:  *)
(* the regular containers in order, then the init containers in order,      *)
(* each with the container's own list and its role, at a moment when the    *)
(* accumulator holds the aggregate of exactly the containers before it      *)
(* (and no overhead).                                                       *)
LogExpected(kind) ==
    LET nc == Len(pod.containers)
        ni == Len(pod.initContainers)
    IN  Table([i \in 1..(nc + ni) |->
          IF i <= nc
          THEN [res |-> pod.containers[i][kind],
                containerType |-> ContainerTypeContainers,
                acc |-> Aggregate(Declared(kind, SubSeq(pod.containers, 1, i - 1)),
                                  <<>>)]
          ELSE [res |-> pod.initContainers[i - nc][kind],
                containerType |-> ContainerTypeInitContainers,
                acc |-> Aggregate(Declared(kind, pod.containers),
                                  Declared(kind, SubSeq(pod.initContainers, 1, i - nc - 1)))]])

C8_ObserverOrder ==
    (call.kind \in Kinds /\ Effective(call.opts).ContainerFn) =>
        log = LogExpected(call.kind)

(* three containers, each call of the observer seeing another accumulator,  *)
(* and overhead folded in after the last one                                *)
C8_Witness ==
    /\ call.kind \in Kinds /\ Effective(call.opts).ContainerFn
    /\ Len(pod.containers) = 2 /\ Len(pod.initContainers) = 1
    /\ Len(log) = 3
    /\ log[1].acc = EmptyList /\ log[2].acc # log[1].acc /\ log[3].acc # log[2].acc
    /\ OverheadIncluded
    /\ Result # Aggregate(Declared(call.kind, pod.containers),
                          Declared(call.kind, pod.initContainers))

(* C10: the result of PodRequests and of PodLimits is the same for every    *)
(* order of the regular containers and every order of the init containers. *)
C10_OrderIndependent ==
    call.kind \in Kinds =>
        \A cs \in Reorderings(pod.containers) :
        \A is \in Reorderings(pod.initContainers) :
            Outcomes(call.kind, [pod EXCEPT !.containers = cs, !.initContainers = is],
                     Fresh(call.opts)) = {Result}

(* two init containers that ask for different amounts of one resource *)
C10_Witness ==
    /\ call.kind \in Kinds
    /\ Len(pod.initContainers) = 2 /\ Len(pod.containers) = 1
    /\ LET I == Declared(call.kind, pod.initContainers)
       IN  \E n \in DOMAIN I[1] \cap DOMAIN I[2] :
              I[1][n] < I[2][n] /\ Result[n] = I[2][n]

(* C4: a call given a Reuse map returns that map, holding what the call     *)
(* returns without a Reuse map, whatever the map held before.               *)
C4_ReuseOverwrites ==
    (call.kind \in Kinds /\ Effective(call.opts).Reuse # NilMap) =>
        /\ ret = call.opts.Reuse
        /\ Outcomes(call.kind, pod, Fresh(call.opts)) = {Result}

(* the reused map held a name the result lacks and another value for a name *)
(* the result has                                                           *)
C4_Witness ==
    /\ call.kind \in Kinds /\ Effective(call.opts).Reuse # NilMap
    /\ \E n \in DOMAIN call.prior : n \notin DOMAIN Result
    /\ \E n \in DOMAIN call.prior : n \in DOMAIN Result /\ call.prior[n] > Result[n]

(* the same call twice in a row on one accumulator *)
C4_WitnessTwice ==
    /\ call.kind \in Kinds /\ Effective(call.opts).Reuse # NilMap
    /\ call.prior = Result /\ Result # EmptyList

(* C5: no step changes what a container's requests, a container's limits   *)
(* or the pod's overhead hold: neither a call, with or without Reuse, nor   *)
(* the caller changing a quantity of the map it was returned.               *)
InputViews(m) == [l \in InputMaps |-> View(m, l)]

C5_InputsUnchanged == [][InputViews(mem') = InputViews(mem)]_vars

(* the caller has changed, through its pointer, a Dec-form quantity of the  *)
(* returned map that containers declare in the Dec form                     *)
C5_Witness ==
    /\ call.kind = "mutated"
    /\ call.name \in DOMAIN mem.maps[ret]
    /\ mem.maps[ret][call.name].d # NoDec
    /\ \E i \in DOMAIN pod.containers :
          /\ call.name \in DOMAIN mem.maps[pod.containers[i].requests]
          /\ mem.maps[pod.containers[i].requests][call.name].d # NoDec
    /\ Len(pod.containers) = 2

(* C6: FindMatchingUntoleratedTaint returns the taint at the lowest index   *)
(* that passes the filter (every taint passes a nil filter) and that no     *)
(* toleration tolerates, with true; when there is none, the zero taint with *)
(* false.                                                                   *)
Passes(inclusionFilter, taint) == inclusionFilter = "nil" \/ taint.effect = inclusionFilter

Untolerated ==
    {i \in DOMAIN taints :
        /\ Passes(filter, taints[i])
        /\ \A j \in DOMAIN tolerations : ~ToleratesTaint(tolerations[j], taints[i])}

C6_FirstUntolerated ==
    found.op = "find" =>
        IF Untolerated = {}
        THEN found.ok = FALSE /\ found.taint = ZeroTaint
        ELSE /\ found.ok = TRUE
             /\ \E i \in Untolerated :
                   /\ \A j \in Untolerated : i <= j
                   /\ found.taint = taints[i]

(* the first taint is filtered out, the second is tolerated, the third is   *)
(* returned                                                                 *)
C6_Witness ==
    /\ found.op = "find" /\ found.ok
    /\ Len(taints) = 3 /\ filter # "nil" /\ tolerations # <<>>
    /\ ~Passes(filter, taints[1])
    /\ Passes(filter, taints[2]) /\ 2 \notin Untolerated
    /\ found.taint = taints[3]
    /\ \A j \in DOMAIN tolerations : ~ToleratesTaint(tolerations[j], taints[1])

(* every taint that passes the filter is tolerated, one that does not pass  *)
(* is not                                                                   *)
C6_WitnessNone ==
    /\ found.op = "find" /\ ~found.ok /\ found.taint = ZeroTaint
    /\ \E i \in DOMAIN taints : Passes(filter, taints[i])
    /\ \E i \in DOMAIN taints :
          \A j \in DOMAIN tolerations : ~ToleratesTaint(tolerations[j], taints[i])

(* C7: TolerationsTolerateTaint is true exactly when some toleration of the *)
(* sequence tolerates the taint, in whatever order the tolerations come,    *)
(* and so false for the empty sequence.                                     *)
C7_AnyToleration ==
    found.op = "tolerate" =>
        /\ found.ok = (\E j \in DOMAIN tolerations :
                          ToleratesTaint(tolerations[j], found.arg))
        /\ \A tols \in Reorderings(tolerations) :
              TolerationsTolerateTaint(tols, found.arg) = found.ok
        /\ tolerations = <<>> => ~found.ok

(* the second toleration tolerates the taint, the first does not *)
C7_Witness ==
    /\ found.op = "tolerate" /\ found.ok
    /\ Len(tolerations) = 2
    /\ ~ToleratesTaint(tolerations[1], found.arg)
    /\ ToleratesTaint(tolerations[2], found.arg)

(* C9: two calls given the same accumulator, one after the other, each      *)
(* return what the call returns with an accumulator of its own, and the     *)
(* runtime raises no fatal error; C9_Witness is the state two overlapping   *)
(* calls can get to, in which a returned map is not that result.            *)
Alone(p) == Outcomes(p.kind, pod, [DefaultOpts EXCEPT !.ExcludeOverhead = p.excl])

C9_SequentialCorrect ==
    /\ \A g \in DOMAIN procs :
          (procs[g].pc = "done" /\ ~procs[g].overlapped) => procs[g].result \in Alone(procs[g])
    /\ (\A g \in DOMAIN procs : ~procs[g].overlapped) => ~fatal

(* both calls returned, and one returned a name with twice its quantity *)
C9_Witness ==
    /\ procs # <<>> /\ ~fatal
    /\ \A g \in DOMAIN procs : procs[g].pc = "done" /\ procs[g].overlapped
    /\ \E g \in DOMAIN procs :
          /\ procs[g].result \notin Alone(procs[g])
          /\ \E r \in Alone(procs[g]) :
                /\ DOMAIN r = DOMAIN procs[g].result
                /\ \E n \in DOMAIN r : r[n] > 0 /\ procs[g].result[n] = 2 * r[n]

(* both calls returned, and one returned a map without a name of its result *)
C9_WitnessDeleted ==
    /\ procs # <<>> /\ ~fatal
    /\ \A g \in DOMAIN procs : procs[g].pc = "done"
    /\ \E g \in DOMAIN procs :
          \A r \in Alone(procs[g]) : DOMAIN r \ DOMAIN procs[g].result # {}

(* the second call began after the first returned a map that was not empty  *)
C9_WitnessSequential ==
    /\ procs # <<>>
    /\ \A g \in DOMAIN procs : procs[g].pc = "done" /\ ~procs[g].overlapped
    /\ \A g \in DOMAIN procs : procs[g].result # EmptyList
    /\ procs[1].result # procs[2].result

====
